---- MODULE Spec2Model ----
(***************************************************************************)
(* The toy bank of src/script.js: registration, login, the dashboard with  *)
(* its transfer form, logout, and the admin page, over the two             *)
(* localStorage keys bank_users and bank_session.  Spec is one tab,        *)
(* SpecCorrupt one tab over a store that may be overwritten with a text    *)
(* that is not JSON, SpecTabs two tabs sharing localStorage.               *)
(*                                                                         *)
(* Strings are sequences of UTF-16 code units (97 is "a", 48 is "0").      *)
(* Numbers are JavaScript Numbers, modelled as a binary floating-point     *)
(* format with round-to-nearest-even: significands of Prec bits (binary64  *)
(* has 53), a smallest spacing of 2^-Prec and overflow to Infinity at      *)
(* 2^IntBits.  A finite number is held as an integer count of quanta of    *)
(* 2^-Prec, so that the arithmetic below is exact integer arithmetic       *)
(* followed by one rounding, as IEEE 754 defines it.                       *)
(***************************************************************************)
EXTENDS Integers, Sequences, FiniteSets, TLC

\* ------------------------------------------------------------------ bounds
Prec == 14
MaxTransfers == 2

\* ------------------------------------------------------- JavaScript Number
RECURSIVE Pow(_, _)
Pow(b, n) == IF n = 0 THEN 1 ELSE b * Pow(b, n - 1)

TwoPrec == Pow(2, Prec)
Quantum == TwoPrec
IntBits == Prec + 1
MaxFinite == Pow(2, IntBits)

Fin(v) == [k |-> "fin", v |-> v]
NaN == [k |-> "nan", v |-> 0]
PosInf == [k |-> "inf", v |-> 1]
NegInf == [k |-> "inf", v |-> -1]
Null == [k |-> "null", v |-> 0]

\* the spacing of the representable numbers around x >= 0 (x in quanta)
RECURSIVE UlpFrom(_, _)
UlpFrom(x, m) == IF x \div m < TwoPrec THEN m ELSE UlpFrom(x, 2 * m)
Ulp(x) == UlpFrom(x, 1)

\* n/d >= 0 rounded to the nearest multiple of m, ties to the even multiple
RoundRat(n, d, m) ==
    LET q == n \div (d * m)
        r == n % (d * m)
    IN  IF 2 * r < d * m THEN q * m
        ELSE IF 2 * r > d * m THEN (q + 1) * m
        ELSE IF q % 2 = 0 THEN q * m ELSE (q + 1) * m

\* the Number nearest to the exact value n/d quanta (d > 0)
NumberOf(n, d) ==
    LET a == IF n < 0 THEN -n ELSE n
        v == RoundRat(a, d, Ulp(a \div d))
    IN  IF v \div Quantum >= MaxFinite
        THEN (IF n < 0 THEN NegInf ELSE PosInf)
        ELSE Fin(IF n < 0 THEN -v ELSE v)

\* x + y
JsAdd(x, y) ==
    IF x.k = "fin" /\ y.k = "fin" THEN NumberOf(x.v + y.v, 1)
    ELSE IF x.k \notin {"fin", "inf"} \/ y.k \notin {"fin", "inf"} THEN NaN
    ELSE IF x.k = "inf" /\ y.k = "inf" THEN (IF x.v = y.v THEN x ELSE NaN)
    ELSE IF x.k = "inf" THEN x ELSE y

\* x * c for an integer literal c
JsMulInt(x, c) ==
    IF x.k = "fin" THEN NumberOf(x.v * c, 1)
    ELSE IF x.k = "inf" /\ c # 0 THEN (IF c > 0 THEN x ELSE [x EXCEPT !.v = -x.v])
    ELSE NaN

\* Math.floor
FloorDiv(a, b) == IF a >= 0 THEN a \div b ELSE -((-a + b - 1) \div b)
MathFloor(x) == IF x.k = "fin" THEN Fin(FloorDiv(x.v, Quantum) * Quantum) ELSE x

\* the literal n of the source text
Lit(n) == Fin(n * Quantum)

JsNeg(x) == IF x.k \in {"fin", "inf"} THEN [x EXCEPT !.v = -x.v] ELSE NaN

\* x - y
JsSub(x, y) == JsAdd(x, JsNeg(y))

\* x < y and x <= y: false as soon as an operand is NaN
JsLt(x, y) ==
    /\ x.k \in {"fin", "inf"} /\ y.k \in {"fin", "inf"}
    /\ IF x.k = "fin" /\ y.k = "fin" THEN x.v < y.v
       ELSE IF x.k = "inf" /\ y.k = "inf" THEN x.v < y.v
       ELSE IF x.k = "inf" THEN x.v < 0 ELSE y.v > 0

JsLe(x, y) ==
    /\ x.k \in {"fin", "inf"} /\ y.k \in {"fin", "inf"}
    /\ (JsLt(x, y) \/ x = y)

isNaN(x) == x.k = "nan"

\* ------------------------------------------------------------------ strings
IsSpace(c) == c \in {9, 10, 11, 12, 13, 32, 160}
IsDigit(c) == c >= 48 /\ c <= 57

RECURSIVE TrimStart(_)
TrimStart(s) == IF s # <<>> /\ IsSpace(Head(s)) THEN TrimStart(Tail(s)) ELSE s

RECURSIVE TrimEnd(_)
TrimEnd(s) ==
    IF s # <<>> /\ IsSpace(s[Len(s)]) THEN TrimEnd(SubSeq(s, 1, Len(s) - 1)) ELSE s

\* String.prototype.trim
Trim(s) == TrimEnd(TrimStart(s))

StartsWith(s, p) == Len(s) >= Len(p) /\ SubSeq(s, 1, Len(p)) = p

\* the number of leading decimal digits of s
RECURSIVE DigitRun(_)
DigitRun(s) == IF s # <<>> /\ IsDigit(Head(s)) THEN 1 + DigitRun(Tail(s)) ELSE 0

\* the value of a sequence of decimal digits, saturating at cap
RECURSIVE DigitsValue(_, _, _)
DigitsValue(s, acc, cap) ==
    IF s = <<>> THEN acc
    ELSE IF acc >= cap THEN cap
    ELSE DigitsValue(Tail(s), 10 * acc + (Head(s) - 48), cap)

Drop(s, n) == SubSeq(s, n + 1, Len(s))

\* m * 10^x, stopping once the product has left the finite range
RECURSIVE ScaleUp(_, _)
ScaleUp(m, x) ==
    IF x = 0 \/ m >= MaxFinite THEN m ELSE ScaleUp(10 * m, x - 1)

\* the Number nearest to sign * m * 10^x, for a mantissa m < MantissaCap
MantissaCap == Pow(10, 4)
DecimalToNumber(neg, m, x) ==
    LET sgn == IF neg THEN -1 ELSE 1
    IN  IF m = 0 THEN Fin(0)
        ELSE IF x >= 0
        THEN LET n == ScaleUp(m, x)
             IN  IF n >= MaxFinite
                 THEN (IF neg THEN NegInf ELSE PosInf)
                 ELSE NumberOf(sgn * n * Quantum, 1)
        ELSE IF -x >= 9 THEN Fin(0)
        ELSE NumberOf(sgn * m * Quantum, Pow(10, -x))

InfinityLiteral == <<73, 110, 102, 105, 110, 105, 116, 121>>

\* the global parseFloat: the longest prefix of the trimmed string that is a
\* decimal literal, NaN when there is none
parseFloat(s) ==
    LET t == TrimStart(s)
        neg == t # <<>> /\ Head(t) = 45
        u == IF t # <<>> /\ Head(t) \in {43, 45} THEN Tail(t) ELSE t
        ni == DigitRun(u)
        afterInt == Drop(u, ni)
        hasDot == afterInt # <<>> /\ Head(afterInt) = 46
        nf == IF hasDot THEN DigitRun(Tail(afterInt)) ELSE 0
        afterMant == IF hasDot THEN Drop(afterInt, 1 + nf) ELSE afterInt
        hasE == afterMant # <<>> /\ Head(afterMant) \in {69, 101}
        e1 == IF hasE THEN Tail(afterMant) ELSE <<>>
        eneg == e1 # <<>> /\ Head(e1) = 45
        e2 == IF e1 # <<>> /\ Head(e1) \in {43, 45} THEN Tail(e1) ELSE e1
        ne == DigitRun(e2)
        ev == DigitsValue(SubSeq(e2, 1, ne), 0, 100)
        exp == IF ne = 0 THEN 0 ELSE IF eneg THEN -ev ELSE ev
        digits == SubSeq(u, 1, ni) \o
                  (IF hasDot THEN SubSeq(Tail(afterInt), 1, nf) ELSE <<>>)
    IN  IF StartsWith(u, InfinityLiteral) THEN (IF neg THEN NegInf ELSE PosInf)
        ELSE IF ni + nf = 0 THEN NaN
        ELSE DecimalToNumber(neg, DigitsValue(digits, 0, MantissaCap), exp - nf)

\* window.btoa: base64 of a string of Latin-1 characters; any other character
\* makes it throw InvalidCharacterError, modelled as the result Thrown
Thrown == <<-1>>

B64Char(i) ==
    IF i < 26 THEN 65 + i
    ELSE IF i < 52 THEN 97 + (i - 26)
    ELSE IF i < 62 THEN 48 + (i - 52)
    ELSE IF i = 62 THEN 43 ELSE 47

RECURSIVE B64Encode(_)
B64Encode(s) ==
    IF s = <<>> THEN <<>>
    ELSE IF Len(s) = 1
    THEN <<B64Char(s[1] \div 4), B64Char((s[1] % 4) * 16), 61, 61>>
    ELSE IF Len(s) = 2
    THEN <<B64Char(s[1] \div 4),
           B64Char((s[1] % 4) * 16 + s[2] \div 16),
           B64Char((s[2] % 16) * 4), 61>>
    ELSE <<B64Char(s[1] \div 4),
           B64Char((s[1] % 4) * 16 + s[2] \div 16),
           B64Char((s[2] % 16) * 4 + s[3] \div 64),
           B64Char(s[3] % 64)>> \o B64Encode(Drop(s, 3))

btoa(s) ==
    IF \E i \in 1..Len(s) : s[i] > 255 THEN Thrown ELSE B64Encode(s)

\* ------------------------------------------------------------- environment
\* Math.random(): a multiple k / 2^Prec of the format's spacing in [0, 1)
RandomSamples == {0, 1, TwoPrec - 2, TwoPrec - 1}
MathRandom(k) == Fin(k)

\* new Date(): the wall clock read by a handler, in half seconds past some
\* minute; toLocaleString(): its text, with a resolution of one second
ClockSamples == {1}
toLocaleString(c) == <<48 + (c \div 2)>>

\* ------------------------------------------------------------ localStorage
USERS_KEY == "bank_users"
SESSION_KEY == "bank_session"
Tabs == {1, 2}

VARIABLES
    localStorage,   \* key -> [kind: "absent" | "json" | "corrupt", val]
    tab             \* tab -> the page it shows and the dashboard script's closure

vars == <<localStorage, tab>>

Absent == [kind |-> "absent", val |-> <<>>]
Json(v) == [kind |-> "json", val |-> v]

\* an object without own properties, and obj with obj[k] = v
EmptyObject == <<>>
Put(obj, k, v) == [x \in DOMAIN obj \cup {k} |-> IF x = k THEN v ELSE obj[x]]

\* JSON.stringify then JSON.parse of a Number: NaN and the infinities are
\* written as null
JsonNumber(n) == IF n.k = "fin" THEN n ELSE Null

\* what JSON.stringify(users) writes: the own properties of users
JSONstringify(users) ==
    Json([u \in DOMAIN users |->
            [password |-> users[u].password,
             balance |-> JsonNumber(users[u].balance),
             transactions |->
                [i \in 1..Len(users[u].transactions) |->
                    [users[u].transactions[i] EXCEPT !.amount = JsonNumber(@)]]]])

\* getUsers(): JSON.parse(localStorage.getItem(USERS_KEY) || '{}'); JSON.parse
\* throws SyntaxError on a text that is not JSON
getUsersThrows(ls) == ls[USERS_KEY].kind = "corrupt"
getUsers(ls) == IF ls[USERS_KEY].kind = "json" THEN ls[USERS_KEY].val ELSE EmptyObject

\* setUsers(users)
setUsers(ls, users) == [ls EXCEPT ![USERS_KEY] = JSONstringify(users)]

\* a string value, and the value null where a string may stand
Str(s) == [k |-> "str", v |-> s]
NullStr == [k |-> "null", v |-> <<>>]

\* getSession(): JSON.parse(localStorage.getItem(SESSION_KEY) || 'null')
getSession(ls) ==
    IF ls[SESSION_KEY].kind = "json" THEN Str(ls[SESSION_KEY].val) ELSE NullStr

\* setSession(username) and clearSession()
setSession(ls, username) == [ls EXCEPT ![SESSION_KEY] = Json(username)]
clearSession(ls) == [ls EXCEPT ![SESSION_KEY] = Absent]

\* the names every object inherits from Object.prototype
ObjectPrototypeKeys ==
    { <<116, 111, 83, 116, 114, 105, 110, 103>>,                 \* toString
      <<118, 97, 108, 117, 101, 79, 102>>,                       \* valueOf
      <<99, 111, 110, 115, 116, 114, 117, 99, 116, 111, 114>>,   \* constructor
      <<95, 95, 112, 114, 111, 116, 111, 95, 95>> }              \* __proto__

\* users[k] is an own record of users
Own(users, k) == k \in DOMAIN users

\* the truthiness of users[k]: an own record, or a value inherited from
\* Object.prototype
Truthy(users, k) == Own(users, k) \/ k \in ObjectPrototypeKeys

\* the truthiness of a session value: null and "" are falsy
SessionTruthy(s) == s.k = "str" /\ s.v # <<>>

\* -------------------------------------------------------------------- pages
\* A tab holds the page it shows; said is what the handler that ran last on
\* this page left (the text it wrote to its error element, or the name of
\* the exception it threw), "" on a fresh page; form holds the username
\* field of the registration or login form that handler read; session and
\* users are the constants of the dashboard script, live tells that its
\* handlers are set.
\* On admin.html, unlocked tells that admin-data and admin-logout are displayed
\* (and admin-content is not), listing is the set of the items of user-list,
\* each the username and the balance of its text (the order of the items is
\* left out).
NoForm == <<>>
Page(page, said) ==
    [page |-> page, said |-> said, form |-> NoForm, live |-> FALSE,
     session |-> <<>>, users |-> EmptyObject, unlocked |-> FALSE, listing |-> {}]
\* a tab that shows no page of the site
Closed == Page("closed", "")
\* index.html, with the registration and login forms
Index == Page("index", "")
\* dashboard.html requested, its script not yet run
Loading == Page("loading", "")
\* dashboard.html with its handlers installed over the constants session, users
Dashboard(session, users) ==
    [page |-> "dashboard", said |-> "", form |-> NoForm, live |-> TRUE,
     session |-> session, users |-> users, unlocked |-> FALSE, listing |-> {}]
\* admin.html as served: the password form shown, the list hidden and empty
Admin == Page("admin", "")

\* what the forms are given
NameA == <<97>>
NameB == <<98>>
ToStringName == <<116, 111, 83, 116, 114, 105, 110, 103>>
NameInputs == {NameA, <<32, 98>>, ToStringName}
PasswordPairs == {<<<<112>>, <<112>>>>, <<<<112>>, <<8364>>>>, <<<<8364>>, <<8364>>>>}
LoginPasswordInputs == {<<112>>, <<113, 49>>, <<8364>>}
AmountInputs ==
    { <<>>,                                  \* ""
      <<45, 53>>,                            \* "-5"
      <<48, 46, 48, 54, 50, 53>>,            \* "0.0625"
      <<49, 48, 48, 48>>,                    \* "1000"
      <<49, 101, 57>> }                      \* "1e9"

Init ==
    /\ localStorage = [key \in {USERS_KEY, SESSION_KEY} |-> Absent]
    /\ tab = [t \in Tabs |-> Closed]

\* the user opens index.html, dashboard.html or admin.html in tab t
Open(t, page) ==
    /\ page \in {"index", "loading", "admin"}
    /\ tab' = [tab EXCEPT ![t] = IF page = "index" THEN Index
                                 ELSE IF page = "loading" THEN Loading ELSE Admin]
    /\ UNCHANGED localStorage

\* NewUser with the range of the random part one too wide
NewUserOffByOne(password, rnd, now) ==
    [password |-> btoa(password),
     balance |-> JsAdd(Lit(1000), MathFloor(JsMulInt(MathRandom(rnd), 9001))),
     transactions |->
        << [type |-> "credit", amount |-> Lit(1000), date |-> toLocaleString(now),
            desc |-> <<73, 110, 105, 116, 105, 97, 108, 32,
                       100, 101, 112, 111, 115, 105, 116>>] >>]

\* the record registration stores under the new username
NewUser(password, rnd, now) ==
    [password |-> btoa(password),
     balance |-> JsAdd(Lit(1000), MathFloor(JsMulInt(MathRandom(rnd), 9000))),
     transactions |->
        << [type |-> "credit", amount |-> Lit(1000), date |-> toLocaleString(now),
            desc |-> <<73, 110, 105, 116, 105, 97, 108, 32,
                       100, 101, 112, 111, 115, 105, 116>>] >>]

\* RegisterOutcome without the check for an existing username
RegisterOutcomeNoDuplicateCheck(ls, username, password, confirm) ==
    IF password # confirm THEN "Passwords do not match."
    ELSE IF getUsersThrows(ls) THEN "SyntaxError"
    ELSE IF btoa(password) = Thrown THEN "InvalidCharacterError"
    ELSE "ok"

\* registerForm.onsubmit
RegisterOutcome(ls, username, password, confirm) ==
    IF password # confirm THEN "Passwords do not match."
    ELSE IF getUsersThrows(ls) THEN "SyntaxError"
    ELSE IF Truthy(getUsers(ls), username) THEN "Username already exists."
    ELSE IF btoa(password) = Thrown THEN "InvalidCharacterError"
    ELSE "ok"

Register(t, name, password, confirm, rnd, clock) ==
    LET username == Trim(name)
        out == RegisterOutcome(localStorage, username, password, confirm)
        users == Put(getUsers(localStorage), username, NewUser(password, rnd, clock))
    IN  /\ tab[t].page = "index"
        /\ IF out = "ok"
           THEN /\ localStorage' = setSession(setUsers(localStorage, users), username)
                /\ tab' = [tab EXCEPT ![t] = Loading]
           ELSE /\ tab' = [tab EXCEPT ![t].said = out,
                                       ![t].form = name]
                /\ UNCHANGED localStorage

\* LoginOutcome without the comparison of the passwords
LoginOutcomeAnyPassword(ls, username, password) ==
    IF getUsersThrows(ls) THEN "SyntaxError"
    ELSE IF ~Truthy(getUsers(ls), username) THEN "Invalid username or password."
    ELSE IF btoa(password) = Thrown THEN "InvalidCharacterError"
    ELSE IF ~Own(getUsers(ls), username) THEN "Invalid username or password."
    ELSE "ok"

\* LoginOutcome that refuses only a stored user with another password
LoginOutcomeUnknownUserPasses(ls, username, password) ==
    IF getUsersThrows(ls) THEN "SyntaxError"
    ELSE IF btoa(password) = Thrown THEN "InvalidCharacterError"
    ELSE IF Own(getUsers(ls), username)
            /\ getUsers(ls)[username].password # btoa(password)
    THEN "Invalid username or password."
    ELSE "ok"

\* loginForm.onsubmit
LoginOutcome(ls, username, password) ==
    IF getUsersThrows(ls) THEN "SyntaxError"
    ELSE IF ~Truthy(getUsers(ls), username) THEN "Invalid username or password."
    ELSE IF btoa(password) = Thrown THEN "InvalidCharacterError"
    ELSE IF ~Own(getUsers(ls), username) THEN "Invalid username or password."
    ELSE IF getUsers(ls)[username].password # btoa(password)
    THEN "Invalid username or password."
    ELSE "ok"

Login(t, name, password) ==
    LET username == Trim(name)
        out == LoginOutcome(localStorage, username, password)
    IN  /\ tab[t].page = "index"
        /\ IF out = "ok"
           THEN /\ localStorage' = setSession(localStorage, username)
                /\ tab' = [tab EXCEPT ![t] = Loading]
           ELSE /\ tab' = [tab EXCEPT ![t].said = out,
                                       ![t].form = name]
                /\ UNCHANGED localStorage

\* LoadOutcome without the guard of lines 72-73
LoadOutcomeNoGuard(ls) ==
    IF getUsersThrows(ls) THEN "SyntaxError"
    ELSE IF ~Own(getUsers(ls), getSession(ls).v) THEN "TypeError"
    ELSE "ok"

\* the script of dashboard.html, run when the page has loaded
LoadOutcome(ls) ==
    IF ~SessionTruthy(getSession(ls)) THEN "redirect"
    ELSE IF getUsersThrows(ls) THEN "SyntaxError"
    ELSE IF ~Own(getUsers(ls), getSession(ls).v) THEN "TypeError"
    ELSE "ok"

LoadDashboard(t) ==
    LET out == LoadOutcome(localStorage)
    IN  /\ tab[t].page = "loading"
        /\ tab' = [tab EXCEPT ![t] =
                     IF out = "redirect" THEN Index
                     ELSE IF out = "ok"
                     THEN Dashboard(getSession(localStorage).v, getUsers(localStorage))
                     ELSE Page("dashboard", out)]
        /\ UNCHANGED localStorage

\* Logout without clearSession()
LogoutKeepsSession(t) ==
    /\ tab[t].live
    /\ tab' = [tab EXCEPT ![t] = Index]
    /\ UNCHANGED localStorage

\* logout-btn.onclick
Logout(t) ==
    /\ tab[t].live
    /\ localStorage' = clearSession(localStorage)
    /\ tab' = [tab EXCEPT ![t] = Index]

\* transferForm.onsubmit, over the constants session and users of the script
TransferTo == <<84, 114, 97, 110, 115, 102, 101, 114, 32, 116, 111, 32>>
TransferFrom == <<84, 114, 97, 110, 115, 102, 101, 114, 32, 102, 114, 111, 109, 32>>

\* TransferOutcome without the isNaN check
TransferOutcomeNoNaNCheck(users, session, to, amount) ==
    IF ~Truthy(users, to) THEN "Recipient not found."
    ELSE IF to = session THEN "Cannot transfer to yourself."
    ELSE IF JsLe(amount, Lit(0)) THEN "Invalid amount."
    ELSE IF JsLt(users[session].balance, amount) THEN "Insufficient funds."
    ELSE IF ~Own(users, to) THEN "TypeError"
    ELSE "ok"

TransferOutcome(users, session, to, amount) ==
    IF ~Truthy(users, to) THEN "Recipient not found."
    ELSE IF to = session THEN "Cannot transfer to yourself."
    ELSE IF JsLe(amount, Lit(0)) \/ isNaN(amount) THEN "Invalid amount."
    ELSE IF JsLt(users[session].balance, amount) THEN "Insufficient funds."
    ELSE IF ~Own(users, to) THEN "TypeError"
    ELSE "ok"

\* Debit that assigns the list instead of pushing to it
DebitReplacesList(users, session, to, amount, now) ==
    [users EXCEPT
        ![session].balance = JsSub(@, amount),
        ![session].transactions =
            << [type |-> "debit", amount |-> amount, date |-> now,
                desc |-> TransferTo \o to] >>]

\* lines 113 and 116: the sender's balance and transaction list
Debit(users, session, to, amount, now) ==
    [users EXCEPT
        ![session].balance = JsSub(@, amount),
        ![session].transactions =
            Append(@, [type |-> "debit", amount |-> amount, date |-> now,
                       desc |-> TransferTo \o to])]

\* lines 114 and 117: the recipient's balance and transaction list
Credit(users, session, to, amount, now) ==
    [users EXCEPT
        ![to].balance = JsAdd(@, amount),
        ![to].transactions =
            Append(@, [type |-> "credit", amount |-> amount, date |-> now,
                       desc |-> TransferFrom \o session])]

\* the transaction lists the handler would append to have room left
Room(users, session, to) ==
    /\ Len(users[session].transactions) <= MaxTransfers
    /\ Own(users, to) => Len(users[to].transactions) <= MaxTransfers

\* Transfer that reads the users afresh from localStorage and not from the
\* users object of the page
TransferRereads(t, name, amountText, clock) ==
    LET to == Trim(name)
        amount == parseFloat(amountText)
        users == getUsers(localStorage)
        session == tab[t].session
        out == TransferOutcome(users, session, to, amount)
        now == toLocaleString(clock)
        debited == Debit(users, session, to, amount, now)
    IN  /\ tab[t].live
        /\ out \in {"ok", "TypeError"} => Room(users, session, to)
        /\ IF out = "ok"
           THEN /\ localStorage' =
                      setUsers(localStorage, Credit(debited, session, to, amount, now))
                /\ tab' = [tab EXCEPT ![t] = Loading]
           ELSE /\ tab' = [tab EXCEPT ![t].said = out]
                /\ UNCHANGED localStorage

Transfer(t, name, amountText, clock) ==
    LET to == Trim(name)
        amount == parseFloat(amountText)
        users == tab[t].users
        session == tab[t].session
        out == TransferOutcome(users, session, to, amount)
        now == toLocaleString(clock)
        debited == Debit(users, session, to, amount, now)
    IN  /\ tab[t].live
        /\ out \in {"ok", "TypeError"} => Room(users, session, to)
        /\ IF out = "ok"
           THEN /\ localStorage' =
                      setUsers(localStorage, Credit(debited, session, to, amount, now))
                /\ tab' = [tab EXCEPT ![t] = Loading]
           ELSE IF out = "TypeError"
           THEN /\ tab' = [tab EXCEPT ![t].users = debited, ![t].said = out]
                /\ UNCHANGED localStorage
           ELSE /\ tab' = [tab EXCEPT ![t].said = out]
                /\ UNCHANGED localStorage

\* 'SuperSecretAdmin123'
ADMIN_PASSWORD ==
    <<83, 117, 112, 101, 114, 83, 101, 99, 114, 101, 116,
      65, 100, 109, 105, 110, 49, 50, 51>>
\* what the admin form is given: the secret, the secret in lower case, nothing
AdminPasswordInputs ==
    { ADMIN_PASSWORD,
      <<115, 117, 112, 101, 114, 115, 101, 99, 114, 101, 116,
        97, 100, 109, 105, 110, 49, 50, 51>>,
      <<>> }

\* AdminOutcome that lets every password in
AdminOutcomeAnyPassword(ls, pass) ==
    IF getUsersThrows(ls) THEN "SyntaxError" ELSE "ok"

\* adminForm.onsubmit
AdminOutcome(ls, pass) ==
    IF pass # ADMIN_PASSWORD THEN "Incorrect admin password."
    ELSE IF getUsersThrows(ls) THEN "SyntaxError"
    ELSE "ok"

\* lines 144-150: one item for each own key of users
UserList(users) == { <<u, users[u].balance>> : u \in DOMAIN users }

AdminSubmit(t, pass) ==
    LET out == AdminOutcome(localStorage, pass)
    IN  /\ tab[t].page = "admin"
        /\ tab' = [tab EXCEPT ![t] =
                     IF out = "Incorrect admin password." THEN [@ EXCEPT !.said = out]
                     ELSE IF out = "SyntaxError"
                     THEN [@ EXCEPT !.unlocked = TRUE, !.said = out]
                     ELSE [@ EXCEPT !.unlocked = TRUE,
                                    !.listing = UserList(getUsers(localStorage))]]
        /\ UNCHANGED localStorage

\* adminLogout.onclick
AdminLogout(t) ==
    /\ tab[t].page = "admin"
    /\ tab' = [tab EXCEPT ![t].unlocked = FALSE]
    /\ UNCHANGED localStorage

\* --------------------------------------------------------- specifications
\* one browser tab
Next ==
    \/ \E page \in {"index", "loading", "admin"} : Open(1, page)
    \/ \E name \in NameInputs, pair \in PasswordPairs,
          rnd \in RandomSamples, clock \in ClockSamples :
            Register(1, name, pair[1], pair[2], rnd, clock)
    \/ \E name \in NameInputs, password \in LoginPasswordInputs :
            Login(1, name, password)
    \/ LoadDashboard(1)
    \/ Logout(1)
    \/ \E name \in NameInputs, amountText \in AmountInputs, clock \in ClockSamples :
            Transfer(1, name, amountText, clock)
    \/ \E pass \in AdminPasswordInputs : AdminSubmit(1, pass)
    \/ AdminLogout(1)

Spec == Init /\ [][Next]_vars

\* a text that is not JSON, and something other than this script (the user in
\* the browser's storage inspector, another script of the origin) writing it
\* under USERS_KEY
Garbage == [kind |-> "corrupt", val |-> <<>>]
Corrupt ==
    /\ localStorage' = [localStorage EXCEPT ![USERS_KEY] = Garbage]
    /\ UNCHANGED tab

\* one browser tab, and a users store that may get corrupted
NextCorrupt == Next \/ Corrupt
SpecCorrupt == Init /\ [][NextCorrupt]_vars

\* two tabs of one browser, which share localStorage: tab 1 as in Next, on
\* the pages of the bank, and tab 2 kept on dashboard.html; the forms are
\* given few values, and each handler runs to its end before the next starts
TabNameInputs == {NameA, NameB}
NameC == <<99>>
TabPassword == <<112>>
TabRandomSamples == {0}
TabAmountInputs == { <<49, 48, 48, 48>> }     \* "1000"
TabTransfer(t) ==
    \E name \in TabNameInputs, amountText \in TabAmountInputs, clock \in ClockSamples :
        Transfer(t, name, amountText, clock)
NextTabs ==
    \/ \E page \in {"index", "loading"} : Open(1, page)
    \/ \E name \in TabNameInputs \cup {NameC}, rnd \in TabRandomSamples,
          clock \in ClockSamples :
            Register(1, name, TabPassword, TabPassword, rnd, clock)
    \/ \E name \in TabNameInputs : Login(1, name, TabPassword)
    \/ Open(2, "loading")
    \/ \E t \in Tabs : LoadDashboard(t)
    \/ \E t \in Tabs : Logout(t)
    \/ \E t \in Tabs : TabTransfer(t)
SpecTabs == Init /\ [][NextTabs]_vars

\* ------------------------------------------------------------------ claims
\* the persisted store, and the exact sum of the balances of a users object
Store == getUsers(localStorage)
StoreAfter == getUsers(localStorage')

RECURSIVE SumBalances(_, _)
SumBalances(users, names) ==
    IF names = {} THEN 0
    ELSE LET u == CHOOSE x \in names : TRUE
         IN  users[u].balance.v + SumBalances(users, names \ {u})
TotalBalance(users) == SumBalances(users, DOMAIN users)

\* the step is a run of the transfer handler of tab 1 on these field values
TransferRuns(name, amountText) ==
    \E clock \in ClockSamples : Transfer(1, name, amountText, clock)
\* ... which wrote the store and reloaded the page
TransferSucceeds(name, amountText) ==
    tab'[1].page = "loading" /\ TransferRuns(name, amountText)

\* C1: every successful transfer leaves the sum of all balances in the
\* persisted store equal to the sum before it.
C1_TransferKeepsTotal ==
    [][\A name \in NameInputs, amountText \in AmountInputs :
          TransferSucceeds(name, amountText)
              => TotalBalance(StoreAfter) = TotalBalance(Store)]_vars

\* the entry a transfer appends: its type and amount, whatever its date and text
IsEntry(e, type, a) == e.type = type /\ e.amount = a
LastOf(q) == q[Len(q)]
Grew(before, after) == Len(after) = Len(before) + 1 /\ SubSeq(after, 1, Len(before)) = before

\* C2: a successful transfer of a from the session user s to a known r # s,
\* a > 0, balance(s) >= a, takes exactly a from s, gives exactly a to r,
\* appends a debit of a to s's list and a credit of a with the same timestamp
\* to r's list, persists the store and leaves every other record and the
\* session pointer unchanged.
C2_TransferEffect ==
    [][\A name \in NameInputs, amountText \in AmountInputs :
          LET s == tab[1].session
              r == Trim(name)
              a == parseFloat(amountText)
          IN  (/\ TransferRuns(name, amountText)
               /\ s \in DOMAIN Store /\ r \in DOMAIN Store /\ r # s
               /\ a.k = "fin" /\ a.v > 0 /\ Store[s].balance.v >= a.v)
              => /\ localStorage'[USERS_KEY].kind = "json"
                 /\ DOMAIN StoreAfter = DOMAIN Store
                 /\ StoreAfter[s].balance = Fin(Store[s].balance.v - a.v)
                 /\ StoreAfter[r].balance = Fin(Store[r].balance.v + a.v)
                 /\ Grew(Store[s].transactions, StoreAfter[s].transactions)
                 /\ Grew(Store[r].transactions, StoreAfter[r].transactions)
                 /\ IsEntry(LastOf(StoreAfter[s].transactions), "debit", a)
                 /\ IsEntry(LastOf(StoreAfter[r].transactions), "credit", a)
                 /\ LastOf(StoreAfter[s].transactions).date =
                        LastOf(StoreAfter[r].transactions).date
                 /\ StoreAfter[s].password = Store[s].password
                 /\ StoreAfter[r].password = Store[r].password
                 /\ \A u \in DOMAIN Store \ {s, r} : StoreAfter[u] = Store[u]
                 /\ localStorage'[SESSION_KEY] = localStorage[SESSION_KEY]]_vars

\* an amount that is not a number, or is <= 0
BadAmount(a) == a.k = "nan" \/ (a.k \in {"fin", "inf"} /\ a.v <= 0)

\* C3: a transfer whose amount is <= 0 or not a number fails, with "Invalid
\* amount." or the message of an earlier check, and leaves the persisted store
\* and the page's balances and transaction lists unchanged.
C3_BadAmountFails ==
    [][\A name \in NameInputs, amountText \in AmountInputs :
          (TransferRuns(name, amountText) /\ BadAmount(parseFloat(amountText)))
              => /\ localStorage' = localStorage
                 /\ tab'[1].users = tab[1].users
                 /\ tab'[1].page = "dashboard"
                 /\ tab'[1].said \in {"Invalid amount.", "Recipient not found.",
                                      "Cannot transfer to yourself."}]_vars

\* a bad amount was rejected as such
C3_Witness ==
    /\ tab[1].live /\ tab[1].said = "Invalid amount."
    /\ tab[1].users = Store /\ DOMAIN Store = {NameA, NameB}

\* in users, every debit entry of a transfer has its credit entry in the list
\* of the user it names, with the same amount and date
Paired(users) ==
    \A s \in DOMAIN users : \A i \in 1..Len(users[s].transactions) :
        LET e == users[s].transactions[i]
        IN  e.type = "debit" =>
              \E r \in DOMAIN users \ {s} :
                 /\ e.desc = TransferTo \o r
                 /\ \E j \in 1..Len(users[r].transactions) :
                       LET c == users[r].transactions[j]
                       IN  /\ IsEntry(c, "credit", e.amount)
                           /\ c.date = e.date
                           /\ c.desc = TransferFrom \o s

\* C4: a transfer attempt either leaves the persisted store and the page's
\* users object unchanged or applies all four mutations; neither ever holds a
\* debit without its credit.
C4_NoPartialTransfer ==
    [][\A name \in NameInputs, amountText \in AmountInputs :
          TransferRuns(name, amountText)
              => /\ \/ /\ localStorage' = localStorage
                       /\ tab'[1].users = tab[1].users
                    \/ LET s == tab[1].session
                           r == Trim(name)
                       IN  /\ r \in DOMAIN Store /\ r # s
                           /\ StoreAfter[s].balance # Store[s].balance
                           /\ StoreAfter[r].balance # Store[r].balance
                           /\ Grew(Store[s].transactions, StoreAfter[s].transactions)
                           /\ Grew(Store[r].transactions, StoreAfter[r].transactions)
                 /\ Paired(StoreAfter)
                 /\ tab'[1].live => Paired(tab'[1].users)]_vars

\* the text a base64 string encodes
B64Index(c) ==
    IF c >= 65 /\ c <= 90 THEN c - 65
    ELSE IF c >= 97 /\ c <= 122 THEN c - 71
    ELSE IF c >= 48 /\ c <= 57 THEN c + 4
    ELSE IF c = 43 THEN 62 ELSE 63

RECURSIVE Decoded(_)
Decoded(s) ==
    IF Len(s) < 4 THEN <<>>
    ELSE LET a == B64Index(s[1])
             b == B64Index(s[2])
             c == B64Index(s[3])
             d == B64Index(s[4])
         IN  IF s[3] = 61 THEN <<a * 4 + b \div 16>>
             ELSE IF s[4] = 61 THEN <<a * 4 + b \div 16, (b % 16) * 16 + c \div 4>>
             ELSE <<a * 4 + b \div 16, (b % 16) * 16 + c \div 4, (c % 4) * 64 + d>>
                  \o Decoded(Drop(s, 4))

\* the step is a run of the registration handler of tab 1 on these values
RegisterRuns(name, password, confirm) ==
    \E rnd \in RandomSamples, clock \in ClockSamples :
        Register(1, name, password, confirm, rnd, clock)
\* ... which stored the new record and went on to the dashboard
RegisterSucceeds(name, password, confirm) ==
    tab'[1].page = "loading" /\ RegisterRuns(name, password, confirm)

\* C5: login with an unknown username, or with a password other than the one
\* given at registration, fails and leaves the session pointer and the store
\* unchanged; login with the registered username and password succeeds and
\* sets the session pointer to that username.  (The stored password is the
\* registration password encoded, and no step changes it.)
C5_Login ==
    [][/\ \A name \in NameInputs, password \in LoginPasswordInputs :
            Login(1, name, password) =>
                IF Trim(name) \in DOMAIN Store
                   /\ Decoded(Store[Trim(name)].password) = password
                THEN /\ localStorage' = [localStorage EXCEPT
                                            ![SESSION_KEY] = Json(Trim(name))]
                     /\ tab'[1].page = "loading"
                ELSE /\ localStorage' = localStorage
                     /\ tab'[1].page = "index"
                     /\ tab'[1].said \in {"Invalid username or password.",
                                          "InvalidCharacterError"}
       /\ \A name \in NameInputs, pair \in PasswordPairs :
            RegisterSucceeds(name, pair[1], pair[2]) =>
                Decoded(StoreAfter[Trim(name)].password) = pair[1]
       /\ \A u \in DOMAIN Store :
            u \in DOMAIN StoreAfter /\ StoreAfter[u].password = Store[u].password]_vars

\* a login for a registered username was refused
C5_Witness ==
    /\ tab[1].page = "index" /\ tab[1].said = "Invalid username or password."
    /\ Trim(tab[1].form) \in DOMAIN Store
    /\ localStorage[SESSION_KEY] = Absent

\* C6: registering a username that is already in the store fails with
\* "Username already exists." and leaves every record and the session pointer
\* unchanged, whatever password is supplied (a password that differs from its
\* confirmation is refused before, with "Passwords do not match.", and changes
\* nothing either).
C6_DuplicateRegistration ==
    [][\A name \in NameInputs, pair \in PasswordPairs :
          (RegisterRuns(name, pair[1], pair[2]) /\ Trim(name) \in DOMAIN Store)
              => /\ localStorage' = localStorage
                 /\ tab'[1].page = "index"
                 /\ tab'[1].said = IF pair[1] = pair[2]
                                   THEN "Username already exists."
                                   ELSE "Passwords do not match."]_vars

\* a registration of a stored username was refused as a duplicate
C6_Witness ==
    /\ tab[1].page = "index" /\ tab[1].said = "Username already exists."
    /\ Trim(tab[1].form) \in DOMAIN Store

\* C7: right after a successful registration the new user's transaction list
\* has exactly one entry, a credit whose amount equals the new user's balance.
C7_InitialCreditIsBalance ==
    [][\A name \in NameInputs, pair \in PasswordPairs :
          RegisterSucceeds(name, pair[1], pair[2]) =>
              LET new == StoreAfter[Trim(name)]
              IN  /\ Len(new.transactions) = 1
                  /\ new.transactions[1].type = "credit"
                  /\ new.transactions[1].amount = new.balance]_vars

\* an integer between 1000 and 9999
StartingBalance(b) ==
    /\ b.k = "fin" /\ b.v % Quantum = 0
    /\ 1000 * Quantum <= b.v /\ b.v <= 9999 * Quantum

\* the balance of a new record, for every value of Math.random()
EveryRandomInRange ==
    \A k \in 0..(TwoPrec - 1) : StartingBalance(NewUser(<<112>>, k, 1).balance)

\* C8: right after a successful registration the new user's balance is an
\* integer b with 1000 <= b <= 9999, for every value Math.random() can return.
C8_StartingBalanceRange ==
    [][\A name \in NameInputs, pair \in PasswordPairs :
          RegisterSucceeds(name, pair[1], pair[2]) =>
              /\ StartingBalance(StoreAfter[Trim(name)].balance)
              /\ EveryRandomInRange]_vars

\* a record with the least and a record with the greatest starting balance
C8_Witness ==
    /\ DOMAIN Store = {NameA, NameB}
    /\ Store[NameA].balance = Lit(1000) /\ Len(Store[NameA].transactions) = 1
    /\ Store[NameB].balance = Lit(9999) /\ Len(Store[NameB].transactions) = 1

\* the sum of the amounts of the entries of the given type after the first
\* (the initial deposit)
RECURSIVE SumEntries(_, _, _)
SumEntries(q, i, type) ==
    IF i > Len(q) THEN 0
    ELSE (IF q[i].type = type THEN q[i].amount.v ELSE 0) + SumEntries(q, i + 1, type)

\* a balance less the transfers credited, plus the transfers debited
Net(r) ==
    r.balance.v - SumEntries(r.transactions, 2, "credit")
                + SumEntries(r.transactions, 2, "debit")

\* C9: every user's balance is the starting balance assigned at registration
\* plus the transfer credits minus the debits of the user's list: no step
\* changes the balance of a stored user less its credits plus its debits.
C9_BalanceIsLedger ==
    [][\A u \in DOMAIN Store :
          u \in DOMAIN StoreAfter => Net(StoreAfter[u]) = Net(Store[u])]_vars

\* q is a prefix of r
Prefix(q, r) == Len(q) <= Len(r) /\ SubSeq(r, 1, Len(q)) = q

\* C10: no step removes a username from the store, and every user's
\* transaction list before a step is a prefix of the list after it.
C10_AppendOnly ==
    [][\A u \in DOMAIN Store :
          /\ u \in DOMAIN StoreAfter
          /\ Prefix(Store[u].transactions, StoreAfter[u].transactions)]_vars

\* both users' lists have grown by transfers, one of them twice
C10_Witness ==
    /\ DOMAIN Store = {NameA, NameB}
    /\ Len(Store[NameA].transactions) = 3
    /\ Len(Store[NameB].transactions) >= 2

\* the session pointer, and the steps that are a successful registration or a
\* successful login of tab 1
SessionPointer == localStorage[SESSION_KEY]
SomeRegisterSucceeds ==
    \E name \in NameInputs, pair \in PasswordPairs :
        RegisterSucceeds(name, pair[1], pair[2])
SomeLoginSucceeds ==
    /\ tab'[1].page = "loading"
    /\ \E name \in NameInputs, password \in LoginPasswordInputs :
          Login(1, name, password)

\* C11: logout removes the session pointer and shows index.html; while the
\* pointer is absent the dashboard script redirects to index.html, showing no
\* account data and setting no handler, and no page holds a dashboard's
\* handlers; the pointer stays absent until a registration or a login
\* succeeds.
C11_LogoutThenRedirect ==
    [][/\ Logout(1) => SessionPointer' = Absent /\ tab'[1] = Index
       /\ (SessionPointer = Absent /\ LoadDashboard(1)) => tab'[1] = Index
       /\ SessionPointer' = Absent =>
             ~tab'[1].live /\ tab'[1].users = EmptyObject
       /\ (SessionPointer = Absent /\ SessionPointer' # Absent) =>
             SomeRegisterSucceeds \/ SomeLoginSucceeds]_vars

\* dashboard.html is requested after a user has registered and logged out
C11_Witness ==
    /\ SessionPointer = Absent /\ DOMAIN Store = {NameA, NameB}
    /\ tab[1].page = "loading"

\* the step is a run of one of the handlers of admin.html, or its loading
AdminActs ==
    \/ \E pass \in AdminPasswordInputs : AdminSubmit(1, pass)
    \/ AdminLogout(1)
    \/ Open(1, "admin")
HasDebit(q) == \E i \in 1..Len(q) : q[i].type = "debit"

\* C12: the session pointer changes only by a successful registration or
\* login, which set it to the username of the form, and by logout, which
\* removes it; logout always removes it; a transfer, a refused registration or
\* login and every action of the admin page leave it as it was.
C12_SessionStateMachine ==
    [][/\ SessionPointer' # SessionPointer =>
             \/ SessionPointer' = Absent /\ Logout(1)
             \/ \E name \in NameInputs, pair \in PasswordPairs :
                   /\ SessionPointer' = Json(Trim(name))
                   /\ RegisterSucceeds(name, pair[1], pair[2])
             \/ \E name \in NameInputs, password \in LoginPasswordInputs :
                   /\ SessionPointer' = Json(Trim(name))
                   /\ tab'[1].page = "loading"
                   /\ Login(1, name, password)
       /\ Logout(1) => SessionPointer' = Absent
       /\ (tab[1].live /\ \E name \in NameInputs, amountText \in AmountInputs :
                              TransferRuns(name, amountText))
             => SessionPointer' = SessionPointer
       /\ (tab[1].page = "index" /\ tab'[1].page = "index")
             => SessionPointer' = SessionPointer
       /\ (tab'[1].page = "admin" /\ AdminActs)
             => SessionPointer' = SessionPointer]_vars

\* a is logged in, and both a and b have made a transfer from their
\* dashboards: one of them has logged out and the other has logged in since
C12_Witness ==
    /\ tab[1].live /\ SessionPointer = Json(NameA)
    /\ DOMAIN Store = {NameA, NameB}
    /\ HasDebit(Store[NameA].transactions) /\ HasDebit(Store[NameB].transactions)

\* the items of a user list that name u
ItemsOf(listing, u) == {e \in listing : e[1] = u}

\* C14: on admin.html the list is displayed only by a submission of the
\* admin secret; a submission of anything else leaves the panel as it was,
\* locked if it was locked; admin logout hides the list again; no action of
\* the page changes the users store or the session pointer; a displayed list
\* has exactly one item for each username of the store, with that user's
\* current balance, and no other item.
C14_AdminPanel ==
    [][/\ (~tab[1].unlocked /\ tab'[1].unlocked) => AdminSubmit(1, ADMIN_PASSWORD)
       /\ \A pass \in AdminPasswordInputs \ {ADMIN_PASSWORD} :
             (tab[1].page = "admin" /\ AdminSubmit(1, pass)) =>
                 /\ tab'[1].unlocked = tab[1].unlocked
                 /\ tab'[1].listing = tab[1].listing
                 /\ tab'[1].said = "Incorrect admin password."
       /\ (tab[1].page = "admin" /\ AdminLogout(1)) => ~tab'[1].unlocked
       /\ (tab'[1].page = "admin" /\ AdminActs) => localStorage' = localStorage
       /\ tab'[1].unlocked =>
             /\ \A u \in DOMAIN StoreAfter :
                   ItemsOf(tab'[1].listing, u) = {<<u, StoreAfter[u].balance>>}
             /\ \A e \in tab'[1].listing : e[1] \in DOMAIN StoreAfter]_vars

\* the panel is unlocked and lists two users, after a wrong password was
\* refused on this page
C14_Witness ==
    /\ tab[1].page = "admin" /\ tab[1].unlocked
    /\ tab[1].said = "Incorrect admin password."
    /\ DOMAIN Store = {NameA, NameB}
    /\ Cardinality(tab[1].listing) = Cardinality(DOMAIN Store)

\* localStorage with nothing stored under USERS_KEY
Emptied == [localStorage EXCEPT ![USERS_KEY] = Absent]

\* C13: while the text under "bank_users" is not JSON, registration does what
\* it does on an empty store (and a successful one stores its user alone),
\* login is refused with "Invalid username or password.", a submission of the
\* admin secret displays an empty list, and no handler or page script ends in
\* an exception.
C13_CorruptStoreIsEmpty ==
    [][getUsersThrows(localStorage) =>
         /\ \A name \in NameInputs, pair \in PasswordPairs :
               (tab[1].page = "index" /\ RegisterRuns(name, pair[1], pair[2])) =>
                   LET out == RegisterOutcome(Emptied, Trim(name), pair[1], pair[2])
                   IN  IF out = "ok"
                       THEN /\ tab'[1].page = "loading"
                            /\ localStorage'[USERS_KEY].kind = "json"
                            /\ DOMAIN StoreAfter = {Trim(name)}
                       ELSE /\ tab'[1].said = out
                            /\ localStorage' = localStorage
         /\ \A name \in NameInputs, password \in LoginPasswordInputs :
               (tab[1].page = "index" /\ Login(1, name, password)) =>
                   /\ tab'[1].said = LoginOutcome(Emptied, Trim(name), password)
                   /\ localStorage' = localStorage
         /\ (tab[1].page = "admin" /\ AdminSubmit(1, ADMIN_PASSWORD)) =>
               tab'[1].unlocked /\ tab'[1].listing = {} /\ tab'[1].said # "SyntaxError"
         /\ (tab[1].page = "loading" /\ LoadDashboard(1)) =>
               tab'[1].said # "SyntaxError"]_vars

\* C16: no balance of the store is ever negative; a transfer from the session
\* user to another stored user of an amount greater than the sender's stored
\* balance is refused with "Insufficient funds." and leaves the store
\* unchanged; one of exactly the sender's stored balance succeeds and leaves
\* the sender with 0.
C16_NoOverdraft ==
    [][/\ \A u \in DOMAIN StoreAfter :
             StoreAfter[u].balance.k = "fin" /\ StoreAfter[u].balance.v >= 0
       /\ tab[1].live =>
             \A name \in NameInputs, amountText \in AmountInputs :
                LET s == tab[1].session
                    r == Trim(name)
                    a == parseFloat(amountText)
                IN  (/\ s \in DOMAIN Store /\ r \in DOMAIN Store /\ r # s
                     /\ a.k \in {"fin", "inf"} /\ a.v > 0
                     /\ TransferRuns(name, amountText))
                    => IF JsLt(Store[s].balance, a)
                       THEN /\ tab'[1].said = "Insufficient funds."
                            /\ localStorage' = localStorage
                       ELSE a = Store[s].balance =>
                              /\ tab'[1].page = "loading"
                              /\ StoreAfter[s].balance = Lit(0)]_vars

\* C17: the transfer handler reports the first check that fails, in the order
\* recipient not in the store, recipient = sender, amount <= 0 or not a
\* number, balance < amount, whatever the later checks would say, and every
\* such refusal leaves localStorage (store and session pointer) and the
\* page's users object unchanged.
C17_CheckOrder ==
    [][tab[1].live =>
         \A name \in NameInputs, amountText \in AmountInputs :
            LET s == tab[1].session
                r == Trim(name)
                a == parseFloat(amountText)
                expected ==
                    IF r \notin DOMAIN Store THEN "Recipient not found."
                    ELSE IF r = s THEN "Cannot transfer to yourself."
                    ELSE IF BadAmount(a) THEN "Invalid amount."
                    ELSE IF JsLt(tab[1].users[s].balance, a) THEN "Insufficient funds."
                    ELSE "ok"
            IN  (expected # "ok" /\ TransferRuns(name, amountText))
                => /\ tab'[1].said = expected
                   /\ tab'[1].page = "dashboard"
                   /\ localStorage' = localStorage
                   /\ tab'[1].users = tab[1].users]_vars

\* C18: registration succeeds exactly when the password equals its
\* confirmation and the username is not in the store (no step ever removes a
\* username, C10); a success adds the record of that username and changes no
\* other; with a password that differs from its confirmation it is refused
\* with "Passwords do not match.", stored username or not, and localStorage
\* (store and session pointer) stays as it was.
C18_RegisterFrame ==
    [][tab[1].page = "index" =>
         \A name \in NameInputs, pair \in PasswordPairs :
            RegisterRuns(name, pair[1], pair[2]) =>
                IF pair[1] # pair[2]
                THEN /\ tab'[1].page = "index"
                     /\ tab'[1].said = "Passwords do not match."
                     /\ localStorage' = localStorage
                ELSE IF Trim(name) \in DOMAIN Store
                THEN /\ tab'[1].page = "index"
                     /\ localStorage' = localStorage
                ELSE /\ tab'[1].page = "loading"
                     /\ DOMAIN StoreAfter = DOMAIN Store \cup {Trim(name)}
                     /\ \A u \in DOMAIN Store : StoreAfter[u] = Store[u]]_vars

\* C19: in one tab the session pointer is absent or is a username of the
\* store, so that the dashboard script, run in any reachable state, either
\* redirects or finds users[session].
C19_SessionNamesUser ==
    /\ \/ SessionPointer = Absent
       \/ SessionPointer.kind = "json" /\ SessionPointer.val \in DOMAIN Store
    /\ LoadOutcome(localStorage) \in {"redirect", "ok"}
    /\ tab[1].page = "dashboard" => tab[1].live

\* b's dashboard is shown, rendered from the record of the session user
C19_Witness ==
    /\ tab[1].live /\ tab[1].session = NameB /\ SessionPointer = Json(NameB)
    /\ DOMAIN Store = {NameA, NameB} /\ tab[1].users = Store

\* C15: a successful transfer of a tab writes the users object that tab read
\* when its dashboard was loaded, with this transfer applied and nothing
\* else, whatever the store holds by then: what another tab has written
\* since (its transfer's balances and entries, a user registered since) is
\* gone from the store.
C15_LastWriteWins ==
    [][\A t \in Tabs, name \in TabNameInputs, amountText \in TabAmountInputs :
          (/\ tab[t].live /\ tab'[t].page = "loading"
           /\ \E clock \in ClockSamples : Transfer(t, name, amountText, clock))
          => LET S == tab[t].users
                 s == tab[t].session
                 r == Trim(name)
                 a == parseFloat(amountText)
             IN  /\ DOMAIN StoreAfter = DOMAIN S
                 /\ \A u \in DOMAIN S \ {s, r} : StoreAfter[u] = S[u]
                 /\ StoreAfter[s].balance = Fin(S[s].balance.v - a.v)
                 /\ StoreAfter[r].balance = Fin(S[r].balance.v + a.v)
                 /\ Grew(S[s].transactions, StoreAfter[s].transactions)
                 /\ Grew(S[r].transactions, StoreAfter[r].transactions)
                 /\ IsEntry(LastOf(StoreAfter[s].transactions), "debit", a)
                 /\ IsEntry(LastOf(StoreAfter[r].transactions), "credit", a)]_vars

\* tab 2 has just written a transfer over the store {a, b} it was loaded
\* from; tab 1 shows a's dashboard, loaded after a transfer of its own from
\* the same store, with an entry in a's list that the store no longer has:
\* the store holds one transfer, not two
C15_Witness ==
    /\ tab[2].page = "loading" /\ tab[1].live /\ tab[1].session = NameA
    /\ DOMAIN Store = {NameA, NameB} /\ DOMAIN tab[1].users = {NameA, NameB}
    /\ Len(tab[1].users[NameA].transactions) = 2
    /\ ~Prefix(tab[1].users[NameA].transactions, Store[NameA].transactions)
    /\ Len(Store[NameA].transactions) = 2 /\ Len(Store[NameB].transactions) = 2

\* the other case of C15: tab 2 has just written a transfer, and c, registered
\* in tab 1 after tab 2 was loaded, is in the store no more
C15_ErasedUser ==
    /\ tab[2].page = "loading" /\ tab[1].page = "loading"
    /\ SessionPointer = Json(NameC)
    /\ DOMAIN Store = {NameA, NameB}

\* C20: a transfer that writes the store is made for the user the session
\* pointer names at that moment: the pointer is not absent, and it names the
\* user whose account the transfer debits.
C20_TransferDebitsSessionUser ==
    [][\A t \in Tabs :
          (tab[t].live /\ tab'[t].page = "loading" /\ TabTransfer(t))
          => /\ SessionPointer # Absent
             /\ SessionPointer = Json(tab[t].session)]_vars

====
